---- MODULE Spec2Model ----
(***************************************************************************)
(* A model of the mesh viewer component (src/src/app/mesh-viewer.tsx):     *)
(* the scene loader (handleJsonSubmit, createMeshFromObject), the orbit    *)
(* camera controller (handleMouseDown/Move/Up, handleWheel) and the        *)
(* component's attach/detach lifecycle with its animation loop.            *)
(*                                                                         *)
(* Numbers.  The program computes in IEEE doubles.  The model computes in  *)
(* fixed point: a camera coordinate is an integer count of 1/Scale world   *)
(* units, a cosine or sine an integer count of 1/TrigScale, every product  *)
(* is rounded to the nearest unit.  Statements about camera positions are  *)
(* therefore stated with a tolerance of a few units.                       *)
(***************************************************************************)
EXTENDS Integers, Sequences, FiniteSets, TLC

VARIABLES
    camera,         \* cameraRef.current.position: [x, y, z] in 1/Scale units
    mouseControls,  \* mouseControlsRef.current
    children,       \* sceneRef.current.children, in order
    error,          \* the `error' state of the component
    jsonInput,      \* the `jsonInput' state of the component (the textarea)
    attached,       \* the component is mounted
    listeners,      \* the event listeners currently registered
    surface,        \* the renderer's canvas: "attached" or "disposed"
    renderedAfterDetach, \* a frame was rendered after the component detached
    nextId,         \* the next THREE.Object3D id (ids are never reused)
    primaryHeld,    \* history: a primary-button press, no release/leave since
    lastSubmit,     \* history: how the last submission ended
    nEvents,        \* history: mouse-move, wheel and submit events handled
    gesture,        \* history: the camera at the last mouse-down, and whether
                    \* only mouse-moves have touched the camera since
    geomIn,         \* geometry builder run: the object handed to it
    geomPos,        \* geometry builder run: the faces visited so far
    geomOut         \* geometry builder run: the buffers built so far

vars == <<camera, mouseControls, children, error, jsonInput, attached,
          listeners, surface, renderedAfterDetach, nextId, primaryHeld,
          lastSubmit, nEvents, gesture, geomIn, geomPos, geomOut>>

sceneVars == <<children, error, jsonInput, nextId, lastSubmit>>
lifeVars == <<attached, listeners, surface, renderedAfterDetach>>
geomVars == <<geomIn, geomPos, geomOut>>
camVars == <<camera, mouseControls, primaryHeld, gesture>>

----------------------------------------------------------------------------
(* Bounds of the model. *)

MaxEvents == 2        \* mouse-move, wheel and submit events in a behaviour of Spec
MaxObjects == 2       \* objects in one submitted payload
MaxLoads == 3         \* submissions in one behaviour of LoadSpec
MaxFaces == 2         \* faces of an object handed to the geometry builder
MaxVerts == 5         \* vertices of one face

(* Cursor coordinates and wheel deltas the events are drawn from. *)
Xs == {0, 90}
Ys == {0, 100}
Buttons == {0, 2}     \* MouseEvent.button: 0 primary, 2 secondary
DeltaYs == {-100, 0, 100}

----------------------------------------------------------------------------
(* Fixed-point arithmetic standing for the program's doubles. *)

Scale == 10 * 10          \* camera units per world unit
TrigScale == 100 * 100    \* units of a cosine or sine

Abs(a) == IF a < 0 THEN -a ELSE a
Min(a, b) == IF a < b THEN a ELSE b
Max(a, b) == IF a > b THEN a ELSE b

(* a / b rounded to the nearest integer, b > 0 *)
RoundDiv(a, b) ==
    IF a >= 0 THEN (2 * a + b) \div (2 * b)
              ELSE -((2 * (-a) + b) \div (2 * b))

RECURSIVE SqrtSearch(_, _, _)
SqrtSearch(n, lo, hi) ==
    IF lo >= hi THEN lo
    ELSE LET mid == (lo + hi + 1) \div 2
         IN  IF mid * mid <= n THEN SqrtSearch(n, mid, hi)
                               ELSE SqrtSearch(n, lo, mid - 1)

(* Math.sqrt, to the nearest unit *)
Sqrt(n) ==
    LET r == SqrtSearch(n, 0, 46340)
    IN  IF n - r * r > r THEN r + 1 ELSE r

(* Math.cos(delta * rotationSpeed) and Math.sin(delta * rotationSpeed) with   *)
(* rotationSpeed = 0.01, in 1/TrigScale, for the pixel deltas that the        *)
(* coordinates of Xs and Ys can produce.                                      *)
Cos(delta) ==
    CASE Abs(delta) = 0   -> 10000
      [] Abs(delta) = 90  -> 6216
      [] Abs(delta) = 100 -> 5403

SinAbs(delta) ==
    CASE Abs(delta) = 0   -> 0
      [] Abs(delta) = 90  -> 7833
      [] Abs(delta) = 100 -> 8415

Sin(delta) == IF delta < 0 THEN -SinAbs(delta) ELSE SinAbs(delta)

(* THREE.Vector3.length() of the camera position *)
Length(p) == Sqrt(p.x * p.x + p.y * p.y + p.z * p.z)

----------------------------------------------------------------------------
(* The orbit camera controller. *)

minDistance == Scale \div 10
maxDistance == 100 * Scale

InitialCamera == [x |-> 0, y |-> 0, z |-> 5 * Scale]

InitialMouseControls ==
    [isMouseDown |-> FALSE, startX |-> 0, startY |-> 0, lastX |-> 0, lastY |-> 0]

(* handleMouseDown: e.button is not read, a press of any button starts a drag *)
MouseDownControls(e) ==
    [isMouseDown |-> TRUE, startX |-> e.clientX, startY |-> e.clientY,
     lastX |-> e.clientX, lastY |-> e.clientY]

handleMouseDown(e) ==
    /\ mouseControls' = MouseDownControls(e)
    /\ UNCHANGED camera

(* The first rotation of handleMouseMove: position.x is assigned first and  *)
(* the assignment to position.z reads the new position.x.                   *)
RotateHorizontal(p, deltaX) ==
    LET x1 == RoundDiv(p.x * Cos(deltaX) - p.z * Sin(deltaX), TrigScale)
        z1 == RoundDiv(x1 * Sin(deltaX) + p.z * Cos(deltaX), TrigScale)
    IN  [x |-> x1, y |-> p.y, z |-> z1]

(* The second rotation of handleMouseMove: with r = sqrt(z^2 + y^2) and     *)
(* a = atan2(y, z) the code assigns y = r sin(a + d), z = r cos(a + d),     *)
(* which is y cos d + z sin d and z cos d - y sin d.                        *)
RotateVertical(p, deltaY) ==
    [x |-> p.x,
     y |-> RoundDiv(p.y * Cos(deltaY) + p.z * Sin(deltaY), TrigScale),
     z |-> RoundDiv(p.z * Cos(deltaY) - p.y * Sin(deltaY), TrigScale)]

MovedCamera(p, mc, e) ==
    RotateVertical(RotateHorizontal(p, e.clientX - mc.lastX), e.clientY - mc.lastY)

handleMouseMove(e) ==
    IF ~mouseControls.isMouseDown
    THEN UNCHANGED <<camera, mouseControls>>
    ELSE /\ camera' = MovedCamera(camera, mouseControls, e)
         /\ mouseControls' =
                [mouseControls EXCEPT !.lastX = e.clientX, !.lastY = e.clientY]

handleMouseUp ==
    /\ mouseControls' = [mouseControls EXCEPT !.isMouseDown = FALSE]
    /\ UNCHANGED camera

(* NewDistance without the clamp at maxDistance *)
NewDistance_NoMaxClamp(p, deltaY) ==
    LET currentDistance == Length(p)
        scaled == IF deltaY > 0 THEN RoundDiv(currentDistance * 11, 10)
                                ELSE RoundDiv(currentDistance * 10, 11)
    IN  Max(minDistance, scaled)

(* handleWheel: newDistance, then position.normalize().multiplyScalar(...). *)
(* normalize() divides by length() || 1, so the zero vector stays zero.     *)
NewDistance(p, deltaY) ==
    LET currentDistance == Length(p)
        scaled == IF deltaY > 0 THEN RoundDiv(currentDistance * 11, 10)
                                ELSE RoundDiv(currentDistance * 10, 11)
    IN  Max(minDistance, Min(maxDistance, scaled))

ZoomedCamera(p, deltaY) ==
    LET len == IF Length(p) = 0 THEN 1 ELSE Length(p)
        d == NewDistance(p, deltaY)
    IN  [x |-> RoundDiv(p.x * d, len),
         y |-> RoundDiv(p.y * d, len),
         z |-> RoundDiv(p.z * d, len)]

handleWheel(deltaY) ==
    /\ camera' = ZoomedCamera(camera, deltaY)
    /\ UNCHANGED mouseControls

----------------------------------------------------------------------------
(* The geometry builder. *)

(* A face with n vertices; its coordinates and its normal are told apart   *)
(* from another face's by the seed s.                                      *)
FaceOf(n, s) ==
    [vertices |-> [k \in 1..n |-> [x |-> s, y |-> k, z |-> 10 * s + k]],
     normal |-> [x |-> 0, y |-> s, z |-> 1]]

Seeds == {1, 2}
Faces == {FaceOf(n, s) : n \in 0..MaxVerts, s \in Seeds}

EmptyGeometry ==
    [vertices |-> <<>>, normals |-> <<>>, indices |-> <<>>, vertexIndex |-> 0]

(* face.vertices.forEach(vertex => { vertices.push(...); normals.push(...) }) *)
RECURSIVE PushVertices(_, _, _)
PushVertices(g, vs, normal) ==
    IF vs = <<>> THEN g
    ELSE PushVertices(
            [g EXCEPT !.vertices = @ \o <<Head(vs).x, Head(vs).y, Head(vs).z>>,
                      !.normals = @ \o <<normal.x, normal.y, normal.z>>],
            Tail(vs), normal)

QuadIndices(vertexIndex) ==
    <<vertexIndex, vertexIndex + 1, vertexIndex + 2,
      vertexIndex, vertexIndex + 2, vertexIndex + 3>>

TriangleIndices(vertexIndex) ==
    <<vertexIndex, vertexIndex + 1, vertexIndex + 2>>

(* AddFace with the offset advanced by 4 after a triangle as well *)
AddFace_TriangleAdvancesFour(g, face) ==
    IF Len(face.vertices) = 4
    THEN [PushVertices(g, face.vertices, face.normal)
            EXCEPT !.indices = @ \o QuadIndices(g.vertexIndex),
                   !.vertexIndex = @ + 4]
    ELSE IF Len(face.vertices) = 3
    THEN [PushVertices(g, face.vertices, face.normal)
            EXCEPT !.indices = @ \o TriangleIndices(g.vertexIndex),
                   !.vertexIndex = @ + 4]
    ELSE g

(* one call of the callback of object.faces.forEach *)
AddFace(g, face) ==
    IF Len(face.vertices) = 4
    THEN [PushVertices(g, face.vertices, face.normal)
            EXCEPT !.indices = @ \o QuadIndices(g.vertexIndex),
                   !.vertexIndex = @ + 4]
    ELSE IF Len(face.vertices) = 3
    THEN [PushVertices(g, face.vertices, face.normal)
            EXCEPT !.indices = @ \o TriangleIndices(g.vertexIndex),
                   !.vertexIndex = @ + 3]
    ELSE g

RECURSIVE AddFaces(_, _)
AddFaces(g, faces) ==
    IF faces = <<>> THEN g ELSE AddFaces(AddFace(g, Head(faces)), Tail(faces))

(* the BufferGeometry of createMeshFromObject(object) *)
createMeshFromObject(object) == AddFaces(EmptyGeometry, object.faces)

----------------------------------------------------------------------------
(* The scene loader. *)

ErrorMessage == "Invalid JSON format. Please check your input."

(* Objects of a submitted payload.  JSON.parse gives no guarantee of the   *)
(* SceneData shape: an object may come without a `faces' array.            *)
QuadObject == [hasFaces |-> TRUE, faces |-> <<FaceOf(4, 1)>>, name |-> "cube"]
MixedObject ==
    [hasFaces |-> TRUE, faces |-> <<FaceOf(3, 1), FaceOf(5, 2)>>, name |-> ""]
NoFacesObject == [hasFaces |-> FALSE, faces |-> <<>>, name |-> ""]
ObjectPool == {QuadObject, MixedObject, NoFacesObject}

SeqsUpTo(S, n) == UNION {[1..k -> S] : k \in 0..n}

(* The parsed values: a value with no `objects' array (null, {}, 5) or a   *)
(* value whose `objects' is an array.                                      *)
NoObjectsData == [hasObjects |-> FALSE, objects |-> <<>>]
Datas ==
    {NoObjectsData}
        \cup {[hasObjects |-> TRUE, objects |-> s] : s \in SeqsUpTo(ObjectPool, MaxObjects)}

(* The texts of the textarea: wf tells whether JSON.parse accepts the text *)
NotJsonText == [wf |-> FALSE, data |-> NoObjectsData]
Texts == {NotJsonText} \cup {[wf |-> TRUE, data |-> d] : d \in Datas}
EmptyText == NotJsonText   \* useState(''): JSON.parse('') throws

TextOf(objs) == [wf |-> TRUE, data |-> [hasObjects |-> TRUE, objects |-> objs]]

(* The texts typed in behaviours of the whole program: text that is not    *)
(* JSON, "{}", an empty scene, two well-formed objects, and a well-formed  *)
(* object followed by an object without faces.                             *)
SampleTexts ==
    {NotJsonText, [wf |-> TRUE, data |-> NoObjectsData], TextOf(<<>>),
     TextOf(<<QuadObject, MixedObject>>), TextOf(<<MixedObject, NoFacesObject>>)}

Child(kind, id, name, geometry) ==
    [kind |-> kind, id |-> id, name |-> name, geometry |-> geometry]

InitialChildren == <<Child("GridHelper", 0, "", EmptyGeometry)>>

(* ClearScene that removes nothing *)
ClearScene_RemovesNothing(scene) == scene

(* while (scene.children.length > 0) scene.remove(scene.children[0]) *)
RECURSIVE ClearScene(_)
ClearScene(scene) == IF Len(scene) > 0 THEN ClearScene(Tail(scene)) ELSE scene

(* the lights and the grid that handleJsonSubmit adds after clearing *)
LightsAndGrid(id) ==
    <<Child("AmbientLight", id, "", EmptyGeometry),
      Child("DirectionalLight", id + 1, "", EmptyGeometry),
      Child("GridHelper", id + 2, "", EmptyGeometry)>>

(* obj.name || `object${index}` *)
NameOf(obj, index) == IF obj.name # "" THEN obj.name ELSE "object" \o ToString(index)

(* data.objects.forEach((obj, index) => scene.add(createMeshFromObject(...))) *)
(* createMeshFromObject throws on an object without a faces array, and the   *)
(* groups added before it stay in the scene.                                 *)
RECURSIVE AddMeshes(_, _, _, _)
AddMeshes(objs, index, scene, id) ==
    IF objs = <<>> THEN [children |-> scene, threw |-> FALSE, nextId |-> id]
    ELSE IF ~Head(objs).hasFaces
    THEN [children |-> scene, threw |-> TRUE, nextId |-> id]
    ELSE AddMeshes(Tail(objs), index + 1,
                   Append(scene, Child("Group", id, NameOf(Head(objs), index),
                                       createMeshFromObject(Head(objs)))),
                   id + 1)

(* SubmitResult with the scene cleared before JSON.parse runs *)
SubmitResult_ClearBeforeParse(text, scene, id) ==
    IF ~text.wf
    THEN [children |-> ClearScene(scene), error |-> ErrorMessage, nextId |-> id,
          outcome |-> "syntax"]
    ELSE IF ~text.data.hasObjects
    THEN [children |-> ClearScene(scene) \o LightsAndGrid(id),
          error |-> ErrorMessage, nextId |-> id + 3, outcome |-> "shape"]
    ELSE LET r == AddMeshes(text.data.objects, 0,
                            ClearScene(scene) \o LightsAndGrid(id), id + 3)
         IN  [children |-> r.children,
              error |-> IF r.threw THEN ErrorMessage ELSE "",
              nextId |-> r.nextId,
              outcome |-> IF r.threw THEN "shape" ELSE "ok"]

(* The body of handleJsonSubmit.  JSON.parse runs first; the scene is     *)
(* cleared and relit next; the objects are added last; any exception      *)
(* ends in the catch clause, which only sets the error message.           *)
SubmitResult(text, scene, id) ==
    IF ~text.wf
    THEN [children |-> scene, error |-> ErrorMessage, nextId |-> id,
          outcome |-> "syntax"]
    ELSE IF ~text.data.hasObjects
    THEN [children |-> ClearScene(scene) \o LightsAndGrid(id),
          error |-> ErrorMessage, nextId |-> id + 3, outcome |-> "shape"]
    ELSE LET r == AddMeshes(text.data.objects, 0,
                            ClearScene(scene) \o LightsAndGrid(id), id + 3)
         IN  [children |-> r.children,
              error |-> IF r.threw THEN ErrorMessage ELSE "",
              nextId |-> r.nextId,
              outcome |-> IF r.threw THEN "shape" ELSE "ok"]

(* handleJsonSubmit without setError('') at the end of the try block *)
handleJsonSubmit_KeepsError ==
    LET r == SubmitResult(jsonInput, children, nextId)
    IN  /\ children' = r.children
        /\ error' = IF r.outcome = "ok" THEN error ELSE r.error
        /\ nextId' = r.nextId
        /\ lastSubmit' = r.outcome
        /\ UNCHANGED jsonInput

handleJsonSubmit ==
    LET r == SubmitResult(jsonInput, children, nextId)
    IN  /\ children' = r.children
        /\ error' = r.error
        /\ nextId' = r.nextId
        /\ lastSubmit' = r.outcome
        /\ UNCHANGED jsonInput

----------------------------------------------------------------------------
(* The component's lifecycle: the two effects and their cleanups. *)

AllListeners == {"resize", "mousedown", "mousemove", "mouseup", "mouseleave", "wheel"}

(* The cleanups of the two effects.  Both read containerRef.current when   *)
(* they run; whether React has already cleared the ref by then is not       *)
(* decided by this repository, so both values are allowed.  The resize      *)
(* listener is removed in either case; the viewport listeners and the       *)
(* canvas are released only when the ref is still set.  No cleanup cancels  *)
(* the animation frame request.                                             *)
Cleanup(containerSet) ==
    /\ listeners' = IF containerSet THEN {} ELSE listeners \ {"resize"}
    /\ surface' = IF containerSet THEN "disposed" ELSE surface

(* animate: requests the next frame and renders when the three refs are    *)
(* set; the refs are set on attach and never cleared.                      *)
animate ==
    /\ renderedAfterDetach' = ~attached
    /\ UNCHANGED <<attached, listeners, surface>>

----------------------------------------------------------------------------
(* The events.  A viewport or window event reaches its handler while the   *)
(* component is attached and the listener is registered.                   *)

Delivered(type) == attached /\ type \in listeners

MouseDown ==
    \E x \in Xs, y \in Ys, b \in Buttons :
        /\ Delivered("mousedown")
        /\ handleMouseDown([clientX |-> x, clientY |-> y, button |-> b])
        /\ primaryHeld' = IF b = 0 THEN TRUE ELSE primaryHeld
        /\ gesture' = [camera |-> camera, pure |-> TRUE]
        /\ UNCHANGED <<nEvents, sceneVars, lifeVars, geomVars>>

MouseMove ==
    \E x \in Xs, y \in Ys :
        /\ Delivered("mousemove")
        /\ nEvents < MaxEvents
        /\ handleMouseMove([clientX |-> x, clientY |-> y])
        /\ nEvents' = nEvents + 1
        /\ UNCHANGED <<primaryHeld, gesture, sceneVars, lifeVars, geomVars>>

MouseUp ==
    /\ Delivered("mouseup")
    /\ handleMouseUp
    /\ primaryHeld' = FALSE
    /\ UNCHANGED <<nEvents, gesture, sceneVars, lifeVars, geomVars>>

MouseLeave ==
    /\ Delivered("mouseleave")
    /\ handleMouseUp
    /\ primaryHeld' = FALSE
    /\ UNCHANGED <<nEvents, gesture, sceneVars, lifeVars, geomVars>>

WheelEvent(deltaY) ==
    /\ Delivered("wheel")
    /\ handleWheel(deltaY)
    /\ gesture' = [gesture EXCEPT !.pure = FALSE]
    /\ UNCHANGED <<primaryHeld, sceneVars, lifeVars, geomVars>>

Wheel ==
    \E deltaY \in DeltaYs :
        /\ nEvents < MaxEvents
        /\ WheelEvent(deltaY)
        /\ nEvents' = nEvents + 1

(* onChange of the textarea *)
EditText(texts) ==
    \E t \in texts :
        /\ attached
        /\ jsonInput' = t
        /\ UNCHANGED <<children, error, nextId, lastSubmit, nEvents, camVars,
                       lifeVars, geomVars>>

SetJsonInput == EditText(SampleTexts)

(* onClick of the button.  sceneRef.current is set on attach and never    *)
(* cleared, so the early return of handleJsonSubmit is never taken.       *)
Submit ==
    /\ attached
    /\ nEvents < MaxEvents
    /\ handleJsonSubmit
    /\ nEvents' = nEvents + 1
    /\ UNCHANGED <<camVars, lifeVars, geomVars>>

(* handleResize changes the camera's aspect and the canvas size only *)
Resize ==
    /\ Delivered("resize")
    /\ UNCHANGED <<nEvents, camVars, sceneVars, lifeVars, geomVars>>

Frame ==
    /\ animate
    /\ UNCHANGED <<nEvents, camVars, sceneVars, geomVars>>

Detach ==
    \E containerSet \in BOOLEAN :
        /\ attached
        /\ attached' = FALSE
        /\ Cleanup(containerSet)
        /\ UNCHANGED <<renderedAfterDetach, nEvents, camVars, sceneVars, geomVars>>

----------------------------------------------------------------------------
(* The geometry builder, one face at a time, on an object drawn from the   *)
(* objects of at most MaxFaces faces.                                      *)

Objects ==
    {[hasFaces |-> TRUE, faces |-> fs, name |-> ""] : fs \in SeqsUpTo(Faces, MaxFaces)}

VisitFace ==
    /\ geomPos < Len(geomIn.faces)
    /\ geomOut' = AddFace(geomOut, geomIn.faces[geomPos + 1])
    /\ geomPos' = geomPos + 1
    /\ UNCHANGED <<geomIn, nEvents, camVars, sceneVars, lifeVars>>

----------------------------------------------------------------------------
(* The state after the component has attached (both effects have run). *)

ProgramInit ==
    /\ camera = InitialCamera
    /\ mouseControls = InitialMouseControls
    /\ children = InitialChildren
    /\ error = ""
    /\ jsonInput = EmptyText
    /\ attached = TRUE
    /\ listeners = AllListeners
    /\ surface = "attached"
    /\ renderedAfterDetach = FALSE
    /\ nextId = 1
    /\ primaryHeld = FALSE
    /\ lastSubmit = "none"
    /\ nEvents = 0
    /\ gesture = [camera |-> InitialCamera, pure |-> FALSE]

Init ==
    /\ ProgramInit
    /\ geomIn = [hasFaces |-> TRUE, faces |-> <<>>, name |-> ""]
    /\ geomPos = 0
    /\ geomOut = EmptyGeometry

Next ==
    \/ MouseDown
    \/ MouseMove
    \/ MouseUp
    \/ MouseLeave
    \/ Wheel
    \/ SetJsonInput
    \/ Submit
    \/ Resize
    \/ Frame
    \/ Detach

Spec == Init /\ [][Next]_vars

(* The loader alone: any text of Texts, MaxLoads submissions. *)
LoadEdit == EditText(Texts)

LoadSubmit ==
    /\ nEvents < MaxLoads
    /\ handleJsonSubmit
    /\ nEvents' = nEvents + 1
    /\ UNCHANGED <<camVars, lifeVars, geomVars>>

LoadNext == LoadEdit \/ LoadSubmit

LoadSpec == Init /\ [][LoadNext]_vars

(* Wheel events alone, any number of them, from the initial camera. *)
WheelOnly ==
    \E deltaY \in DeltaYs :
        /\ WheelEvent(deltaY)
        /\ UNCHANGED nEvents

WheelSpec == Init /\ [][WheelOnly]_vars

(* The geometry builder on every object of Objects. *)
GeomInit ==
    /\ ProgramInit
    /\ geomIn \in Objects
    /\ geomPos = 0
    /\ geomOut = EmptyGeometry

GeomSpec == GeomInit /\ [][VisitFace]_vars

----------------------------------------------------------------------------
(* Properties of the scene loader. *)

(* the parsed value has the SceneData shape as far as the loader reads it *)
MatchesSceneData(data) ==
    /\ data.hasObjects
    /\ \A i \in 1..Len(data.objects) : data.objects[i].hasFaces

KindCount(scene, kind) == Cardinality({i \in 1..Len(scene) : scene[i].kind = kind})

HasGroup(scene) == \E i \in 1..Len(scene) : scene[i].kind = "Group"

(* C1: a submission of valid JSON that does not match the SceneData shape  *)
(* leaves the scene's children exactly as they were and sets the error     *)
(* message.                                                                *)
C1_ShapeMismatchKeepsScene ==
    [][(LoadSubmit /\ jsonInput.wf /\ ~MatchesSceneData(jsonInput.data))
            => (children' = children /\ error' # "")]_vars

(* C2: a submission of text that is not JSON leaves the scene's children   *)
(* unchanged, creates no scene object and sets the error message.          *)
C2_SyntaxErrorKeepsScene ==
    [][(LoadSubmit /\ ~jsonInput.wf)
            => (children' = children /\ nextId' = nextId /\ error' # "")]_vars

(* a text that is not JSON was submitted over a scene that holds objects *)
C2_Witness == lastSubmit = "syntax" /\ HasGroup(children) /\ error # ""

(* the scene that a successful load of objs leaves, every child created   *)
(* by this load (ids from firstId on)                                     *)
LoadedScene(scene, objs, firstId) ==
    /\ Len(scene) = 3 + Len(objs)
    /\ scene[1].kind = "AmbientLight"
    /\ scene[2].kind = "DirectionalLight"
    /\ scene[3].kind = "GridHelper"
    /\ KindCount(scene, "AmbientLight") = 1
    /\ KindCount(scene, "DirectionalLight") = 1
    /\ KindCount(scene, "GridHelper") = 1
    /\ KindCount(scene, "Group") = Len(objs)
    /\ \A i \in 1..Len(objs) :
          /\ scene[3 + i].kind = "Group"
          /\ scene[3 + i].name = NameOf(objs[i], i - 1)
          /\ scene[3 + i].geometry = AddFaces(EmptyGeometry, objs[i].faces)
    /\ \A i \in 1..Len(scene) : scene[i].id >= firstId
    /\ \A i, j \in 1..Len(scene) : scene[i].id = scene[j].id => i = j

(* C3: a successful load of N objects leaves one ambient light, one        *)
(* directional light, one grid and the N object groups in input order,     *)
(* and nothing of an earlier load.                                         *)
C3_SuccessfulLoadReplacesScene ==
    [][(LoadSubmit /\ jsonInput.wf /\ MatchesSceneData(jsonInput.data))
            => (/\ LoadedScene(children', jsonInput.data.objects, nextId)
                /\ error' = "")]_vars

(* a second successful load, of two objects, over a loaded scene *)
C3_Witness ==
    /\ lastSubmit = "ok"
    /\ Len(children) = 5
    /\ children[1].id > 3
    /\ nEvents >= 2

(* C8: the error message is non-empty exactly when the last submission     *)
(* failed, whatever other events were handled since.                       *)
C8_ErrorIffLastSubmitFailed ==
    (error # "") <=> (lastSubmit \in {"syntax", "shape"})

(* a failed submission, and a drag that moved the camera *)
C8_Witness ==
    /\ error # ""
    /\ lastSubmit = "shape"
    /\ camera # InitialCamera
    /\ mouseControls.isMouseDown

----------------------------------------------------------------------------
(* Properties of the orbit camera controller. *)

InRange(p) == minDistance <= Length(p) /\ Length(p) <= maxDistance

(* half a unit of rounding, in tenths of a unit *)
WheelTolerance == 10 \div 2

(* C4: a wheel event with positive deltaY sets the distance to             *)
(* min(100, 1.1 x distance), and under wheel events alone the distance     *)
(* stays within [0.1, 100].                                                *)
C4_WheelScalesAndClamps ==
    [][/\ \A deltaY \in DeltaYs :
            (deltaY > 0 /\ WheelEvent(deltaY))
                => Abs(10 * Length(camera')
                        - Min(10 * maxDistance, 11 * Length(camera))) <= WheelTolerance
       /\ InRange(camera')]_vars

(* the distance has been clamped at the maximum *)
C4_Witness == Length(camera) = maxDistance /\ camera # InitialCamera

(* camera coordinates within Tolerance units (0.05 world units) of each other *)
Tolerance == Scale \div 20

Close(p, q) ==
    /\ Abs(p.x - q.x) <= Tolerance
    /\ Abs(p.y - q.y) <= Tolerance
    /\ Abs(p.z - q.z) <= Tolerance

(* C5: after a drag gesture (mouse-down, mouse-moves, mouse-up) that ends  *)
(* at the coordinates where it started, the camera is where it was at the  *)
(* mouse-down.                                                             *)
C5_ZeroNetDragRestoresCamera ==
    (/\ gesture.pure
     /\ ~mouseControls.isMouseDown
     /\ mouseControls.lastX = mouseControls.startX
     /\ mouseControls.lastY = mouseControls.startY)
        => Close(camera, gesture.camera)

(* C7: a mouse-move changes the camera only while a primary-button press   *)
(* is held (no release, no leave since); a press of another button does    *)
(* not start a drag; a move in Idle changes neither the camera nor the     *)
(* last-seen coordinates.                                                  *)
C7_MoveOnlyWhileDragging ==
    [][/\ (MouseMove /\ camera' # camera) => primaryHeld
       /\ mouseControls'.isMouseDown => primaryHeld'
       /\ (MouseMove /\ ~mouseControls.isMouseDown)
            => (camera' = camera /\ mouseControls' = mouseControls)]_vars

(* C10: a mouse-move leaves the camera's distance from the origin          *)
(* unchanged, so the distance stays within [0.1, 100] under every          *)
(* interleaving of drag and wheel events.                                  *)
C10_DragKeepsDistance ==
    [][/\ MouseMove => Abs(Length(camera') - Length(camera)) <= Tolerance
       /\ (minDistance - Tolerance <= Length(camera')
            /\ Length(camera') <= maxDistance + Tolerance)]_vars

----------------------------------------------------------------------------
(* Properties of the geometry builder. *)

(* the vertices and the triangles a face is to contribute *)
VerticesOf(face) == IF Len(face.vertices) \in {3, 4} THEN Len(face.vertices) ELSE 0
TrianglesOf(face) ==
    IF Len(face.vertices) = 4 THEN 2 ELSE IF Len(face.vertices) = 3 THEN 1 ELSE 0

(* the vertices and the triangles due from the first n faces *)
RECURSIVE VerticesBefore(_, _)
VerticesBefore(faces, n) ==
    IF n = 0 THEN 0 ELSE VerticesBefore(faces, n - 1) + VerticesOf(faces[n])

RECURSIVE TrianglesBefore(_, _)
TrianglesBefore(faces, n) ==
    IF n = 0 THEN 0 ELSE TrianglesBefore(faces, n - 1) + TrianglesOf(faces[n])

(* the three numbers of vertex v (from 0) in a flat buffer *)
Triple(buffer, v) == <<buffer[3 * v + 1], buffer[3 * v + 2], buffer[3 * v + 3]>>

(* C6: each 4-vertex face gives 4 vertices and the triangles (b,b+1,b+2),  *)
(* (b,b+2,b+3), each 3-vertex face 3 vertices and the triangle (b,b+1,b+2),*)
(* b the vertices emitted by earlier faces; every vertex carries its own   *)
(* face's normal; any other face gives nothing and does not shift b; M     *)
(* quads give 4M vertices and 2M triangles.                                *)
C6_GeometryOfFaces ==
    LET faces == geomIn.faces
        g == geomOut
    IN  /\ g.vertexIndex = VerticesBefore(faces, geomPos)
        /\ Len(g.vertices) = 3 * VerticesBefore(faces, geomPos)
        /\ Len(g.normals) = 3 * VerticesBefore(faces, geomPos)
        /\ Len(g.indices) = 3 * TrianglesBefore(faces, geomPos)
        /\ \A i \in 1..geomPos :
            LET face == faces[i]
                b == VerticesBefore(faces, i - 1)
                t == TrianglesBefore(faces, i - 1)
            IN  /\ Len(face.vertices) = 4 =>
                       /\ Triple(g.indices, t) = <<b, b + 1, b + 2>>
                       /\ Triple(g.indices, t + 1) = <<b, b + 2, b + 3>>
                /\ Len(face.vertices) = 3 =>
                       Triple(g.indices, t) = <<b, b + 1, b + 2>>
                /\ \A k \in 1..VerticesOf(face) :
                       /\ Triple(g.vertices, b + k - 1)
                            = <<face.vertices[k].x, face.vertices[k].y, face.vertices[k].z>>
                       /\ Triple(g.normals, b + k - 1)
                            = <<face.normal.x, face.normal.y, face.normal.z>>
                /\ \A j \in (3 * t + 1)..(3 * (t + TrianglesOf(face))) :
                       b <= g.indices[j] /\ g.indices[j] < b + VerticesOf(face)
        /\ (\A i \in 1..geomPos : Len(faces[i].vertices) = 4) =>
               /\ Len(g.vertices) = 3 * (4 * geomPos)
               /\ Len(g.indices) = 3 * (2 * geomPos)
        /\ geomPos = Len(faces) => g = createMeshFromObject(geomIn)

(* a skipped face, then a quad built at offset 0 *)
C6_Witness ==
    /\ geomPos = 2
    /\ Len(geomIn.faces[1].vertices) = 5
    /\ Len(geomIn.faces[2].vertices) = 4
    /\ geomOut.indices = <<0, 1, 2, 0, 2, 3>>

----------------------------------------------------------------------------
(* Properties of the lifecycle. *)

(* C9: once the component has detached, no listener it registered remains, *)
(* the canvas is disposed and no further frame is rendered.                *)
C9_DetachReleasesEverything ==
    ~attached => (listeners = {} /\ surface = "disposed" /\ ~renderedAfterDetach)

====
